---- MODULE Spec2Model ----
(***************************************************************************)
(* A model of fiona/collection.py: the life cycle of one Collection (or    *)
(* BytesCollection) object and of the native resources it drives: the      *)
(* runtime context (env), the session, the virtual file of a buffer.       *)
(*                                                                         *)
(* Python values are named by strings: "None" is None, "<int>" is a        *)
(* non-zero int and "<obj>" an arbitrary object where a string is wanted.  *)
(* A method is an operator from the object (s) and the native layer (g) to *)
(* [self, gdal, exc, ret]: the object and the native layer after the call, *)
(* the exception it raised ("None" when it returned) and its value.        *)
(*                                                                         *)
(* The native layer (fiona.ogrext, fiona._drivers, fiona.drvsupport,       *)
(* fiona.vfs) is not part of collection.py: it is modelled by what the     *)
(* collection needs of it. Not modelled: the path and the layer name       *)
(* (self.path, self.name), enabled_drivers, the start/stop/step slice of   *)
(* an iterator, __repr__.                                                  *)
(***************************************************************************)
EXTENDS Integers, Sequences, FiniteSets, TLC

VARIABLES
    pc,     \* where the caller is: "new", "open", "failed", "dead"
    self,   \* the attributes of the Collection object
    gdal,   \* the native layer: context, session, dataset, virtual files
    last    \* the last call made by the caller and how it ended

vars == <<pc, self, gdal, last>>

----------------------------------------------------------------------------
(* Bounds of the model *)

\* the largest number of features a dataset holds
MaxRecs == 2
\* the largest number of native life-cycle events recorded
MaxLog == 7
\* the largest number of records in one writerecords() batch
MaxBatch == 2
\* the largest number of calls of session.writerecs
MaxWrites == 2

----------------------------------------------------------------------------
(* Python values *)

None == "None"
NoneTuple == <<>>

IsString(v) == v \notin {None, "<int>", "<obj>"}
IsInt(v) == v = "<int>"
Truthy(v) == v \notin {None, ""}

\* fiona.drvsupport.supported_drivers: driver name -> modes
supported_drivers ==
    [d \in {"ESRI Shapefile", "GeoJSON", "GPKG", "OpenFileGDB"} |->
        CASE d = "ESRI Shapefile" -> {"r", "a", "w"}
          [] d = "GeoJSON" -> {"r", "w"}
          [] d = "GPKG" -> {"r", "w"}
          [] d = "OpenFileGDB" -> {"r"}]

\* fiona.vfs.valid_vsi
valid_vsi(vsi) == vsi \in {"zip", "tar", "gzip"}

\* the test of line 135: 'init' in crs or 'proj' in crs or 'epsg' in crs.lower()
crs_has_params(crs) == crs \in {"+init=epsg:4326", "+proj=longlat", "EPSG:4326"}

(* A schema argument: None, a mapping with some keys, or an object that    *)
(* has no get().                                                           *)
NoSchema == [tag |-> "None", keys |-> {}, geometry |-> None]
DictSchema(keys, geom) == [tag |-> "dict", keys |-> keys, geometry |-> geom]
ObjSchema == [tag |-> "<obj>", keys |-> {}, geometry |-> None]

SchemaTruthy(schema) ==
    \/ schema.tag = "<obj>"
    \/ schema.tag = "dict" /\ schema.keys # {}
SchemaHasGet(schema) == schema.tag = "dict"

----------------------------------------------------------------------------
(* The native layer (fiona.ogrext, fiona._drivers): what the collection    *)
(* calls, and the state those calls act on.                                *)

Unset == "<unset>"

\* the dataset a session is opened on
NoDataset == [driver |-> None, nfeat |-> 0, nsynced |-> 0, counting |-> "exact"]

\* the native layer before any call
NoGdal ==
    [log |-> <<>>,          \* life-cycle calls made, in order
     sess |-> "none",       \* the session: none, started, failed, stopped
     ds |-> NoDataset,      \* the dataset of the session
     vsimem |-> {},         \* the virtual files that are mapped
     writerecs |-> 0,       \* calls of session.writerecs
     queries |-> [k \in {"driver", "schema", "crs", "crs_wkt"} |-> 0]]

Emit(g, ev) == [g EXCEPT !.log = Append(@, ev)]

Count(log, ev) == Cardinality({i \in DOMAIN log : log[i] = ev})

\* GDALEnv.__enter__ / __exit__
env_enter(g) == Emit(g, "env.enter")
env_exit(g) == Emit(g, "env.exit")

(* Session.start / WritingSession.start: opens the dataset `disk` found at *)
(* the path (mode 'r', 'a') or creates an empty one for the collection's   *)
(* driver (mode 'w'); start_exc is the failure of the native layer, if any *)
session_start(g, s, disk, start_exc) ==
    IF start_exc # None
    THEN [Emit(g, "start") EXCEPT !.sess = "failed"]
    ELSE [Emit(g, "start") EXCEPT
            !.sess = "started",
            !.ds = IF s.mode = "w"
                   THEN [disk EXCEPT !.driver = s._driver, !.nfeat = 0, !.nsynced = 0]
                   ELSE disk]

session_stop(g) == [Emit(g, "stop") EXCEPT !.sess = "stopped"]

session_sync(g) == [Emit(g, "sync") EXCEPT !.ds.nsynced = g.ds.nfeat]

\* session.writerecs(records, collection), for a batch of n records
session_writerecs(g, n) ==
    [g EXCEPT !.writerecs = @ + 1,
              !.ds.nfeat = @ + n,
              !.ds.nsynced = IF g.ds.counting = "lazy" THEN @ ELSE g.ds.nfeat + n]

(* session.get_length(): -1 for a layer that cannot count ("none"), or     *)
(* cannot count before it was synced ("late"); a driver that undercounts   *)
(* ("lazy") reports the records synced so far.                             *)
session_get_length(g) ==
    CASE g.ds.counting = "none" -> -1
      [] g.ds.counting = "late" ->
            IF Count(g.log, "sync") = 0 THEN -1 ELSE g.ds.nfeat
      [] g.ds.counting = "lazy" -> g.ds.nsynced
      [] OTHER -> g.ds.nfeat

\* session.get_extent(): (minx, miny, maxx, maxy) of the features
session_get_extent(g) == <<0, 0, g.ds.nfeat, g.ds.nfeat>>

session_get_driver(g) == g.ds.driver

\* the values the session reports for schema, crs and crs_wkt
DatasetSchema == [tag |-> "dict", keys |-> {"properties", "geometry"}, geometry |-> "Point"]
DatasetCrs == "+init=epsg:4326"
DatasetCrsWkt == "GEOGCS[WGS 84]"

Queried(g, k) == [g EXCEPT !.queries[k] = @ + 1]

\* buffer_to_virtual_file(bytesbuf, ext) and remove_virtual_file(path)
virtual_path(ext) == "/vsimem/buf" \o ext
buffer_to_virtual_file(g, ext) ==
    [Emit(g, "vsi.map") EXCEPT !.vsimem = @ \cup {virtual_path(ext)}]
remove_virtual_file(g, path) ==
    [Emit(g, "vsi.unmap") EXCEPT !.vsimem = @ \ {path}]

----------------------------------------------------------------------------
(* The Collection object *)

NoIterator == [kind |-> None, pos |-> 0]
NoBytes == [tag |-> None, data |-> <<>>]

\* the object before __init__ has assigned anything
Blank(cls) ==
    [cls |-> cls,
     session |-> Unset, iterator |-> NoIterator,
     _len |-> 0, _bounds |-> NoneTuple,
     _driver |-> None, _schema |-> NoSchema, _crs |-> None, _crs_wkt |-> None,
     env |-> Unset, mode |-> Unset, encoding |-> Unset,
     bytesbuf |-> NoBytes, virtual_file |-> Unset]

\* a returned value: what it is, and its number when it has one
Value(what, n) == [what |-> what, n |-> n]
NoValue == Value(None, 0)

\* what a call leaves behind
Return(s, g) == [self |-> s, gdal |-> g, exc |-> None, ret |-> NoValue]
ReturnValue(s, g, v) == [self |-> s, gdal |-> g, exc |-> None, ret |-> v]
Raise(s, g, e) == [self |-> s, gdal |-> g, exc |-> e, ret |-> NoValue]

\* the rest of a method body, run when nothing was raised so far
Then(r, F(_, _)) == IF r.exc # None THEN r ELSE F(r.self, r.gdal)

----------------------------------------------------------------------------
(* Collection.__init__(path, mode, driver, schema, crs, encoding, layer,   *)
(* vsi, archive, enabled_drivers, crs_wkt): a is the record of arguments,  *)
(* w the world the call runs in: the dataset on disk at the path, the      *)
(* failure start() is going to raise, whether GDAL is older than 1.11.     *)

\* lines 51-71: the argument checks, each raising TypeError
BadArgument(a) ==
    \/ ~IsString(a.path)
    \/ ~IsString(a.mode) \/ a.mode \notin {"r", "w", "a"}
    \/ Truthy(a.driver) /\ ~IsString(a.driver)
    \/ SchemaTruthy(a.schema) /\ ~SchemaHasGet(a.schema)
    \/ Truthy(a.crs) /\ ~IsString(a.crs)
    \/ Truthy(a.crs_wkt) /\ ~IsString(a.crs_wkt)
    \/ Truthy(a.encoding) /\ ~IsString(a.encoding)
    \/ Truthy(a.layer) /\ ~(IsString(a.layer) \/ IsInt(a.layer))
    \/ Truthy(a.vsi) /\ (~IsString(a.vsi) \/ ~valid_vsi(a.vsi))
    \/ Truthy(a.archive) /\ ~IsString(a.archive)

\* lines 73-78
init_check_gdal_version(s, g, a, w) ==
    IF a.driver = "GPKG" /\ w.gdal_old
    THEN Raise(s, g, "DriverError")
    ELSE Return(s, g)

\* lines 80-91
init_attributes(s, g) ==
    Return([s EXCEPT !.session = None, !.iterator = NoIterator,
                     !._len = 0, !._bounds = NoneTuple,
                     !._driver = None, !._schema = NoSchema,
                     !._crs = None, !._crs_wkt = None, !.env = None], g)

\* lines 93-109: the layer name, then self.mode
init_name_and_mode(s, g, a) ==
    IF a.mode = "w" /\ Truthy(a.layer) /\ ~IsString(a.layer)
    THEN Raise(s, g, "ValueError")
    ELSE IF a.mode = "w" /\ a.driver = "GeoJSON" /\ a.layer # None
    THEN Raise(s, g, "ValueError")
    ELSE Return([s EXCEPT !.mode = a.mode], g)

\* line 112-113: the driver as the rest of __init__ sees it
init_driver(a) ==
    IF a.mode = "w" /\ a.driver = "Shapefile" THEN "ESRI Shapefile" ELSE a.driver

\* lines 111-122
init_write_driver(s, g, a) ==
    LET driver == init_driver(a) IN
    IF s.mode # "w" THEN Return(s, g)
    ELSE IF ~Truthy(driver) THEN Raise(s, g, "DriverError")
    ELSE IF driver \notin DOMAIN supported_drivers THEN Raise(s, g, "DriverError")
    ELSE IF s.mode \notin supported_drivers[driver] THEN Raise(s, g, "DriverError")
    ELSE Return([s EXCEPT !._driver = driver], g)

\* the schema checks without the test for 'geometry'
init_write_schema_no_geometry_check(s, g, a) ==
    IF s.mode # "w" THEN Return(s, g)
    ELSE IF ~SchemaTruthy(a.schema) THEN Raise(s, g, "SchemaError")
    ELSE IF "properties" \notin a.schema.keys THEN Raise(s, g, "SchemaError")
    ELSE Return([s EXCEPT !._schema = a.schema], g)

\* lines 124-130
init_write_schema(s, g, a) ==
    IF s.mode # "w" THEN Return(s, g)
    ELSE IF ~SchemaTruthy(a.schema) THEN Raise(s, g, "SchemaError")
    ELSE IF "properties" \notin a.schema.keys THEN Raise(s, g, "SchemaError")
    ELSE IF "geometry" \notin a.schema.keys THEN Raise(s, g, "SchemaError")
    ELSE Return([s EXCEPT !._schema = a.schema], g)

\* lines 132-138
init_write_crs(s, g, a) ==
    IF s.mode # "w" THEN Return(s, g)
    ELSE IF Truthy(a.crs_wkt) THEN Return([s EXCEPT !._crs_wkt = a.crs_wkt], g)
    ELSE IF Truthy(a.crs)
    THEN IF crs_has_params(a.crs)
         THEN Return([s EXCEPT !._crs = a.crs], g)
         ELSE Raise(s, g, "CRSError")
    ELSE Return(s, g)

\* lines 140-149
init_enter_env(s, g, a) ==
    Return([s EXCEPT !.env = "AWSGDALEnv",
                     !._driver = init_driver(a),
                     !.encoding = a.encoding],
           env_enter(g))

\* lines 151-160
init_start_session(s, g, w) ==
    LET s1 == [s EXCEPT !.session = IF s.mode = "r" THEN "Session" ELSE "WritingSession"]
        g1 == session_start(g, s1, w.disk, w.start_exc)
    IN  IF w.start_exc = None THEN Return(s1, g1)
        ELSE IF w.start_exc = "IOError"
        THEN Raise([s1 EXCEPT !.session = None], g1, w.start_exc)
        ELSE Raise(s1, g1, w.start_exc)

\* lines 174-179
guard_driver_mode(s, g) ==
    LET driver == session_get_driver(g)
        g1 == Queried(g, "driver")
    IN  IF driver \notin DOMAIN supported_drivers THEN Raise(s, g1, "DriverError")
        ELSE IF s.mode \notin supported_drivers[driver] THEN Raise(s, g1, "DriverError")
        ELSE Return(s, g1)

\* lines 162-165; the session reports the file encoding "utf-8"
init_guard(s, g) ==
    IF s.session # None
    THEN Then(guard_driver_mode(s, g),
              LAMBDA s1, g1 :
                Return([s1 EXCEPT !.encoding =
                            IF ~Truthy(s1.encoding) THEN "utf-8" ELSE @], g1))
    ELSE Return(s, g)

\* lines 32-165
Collection__init__(s, g, a, w) ==
    IF BadArgument(a) THEN Raise(s, g, "TypeError")
    ELSE
    Then(init_check_gdal_version(s, g, a, w), LAMBDA s1, g1 :
    Then(init_attributes(s1, g1), LAMBDA s2, g2 :
    Then(init_name_and_mode(s2, g2, a), LAMBDA s3, g3 :
    Then(init_write_driver(s3, g3, a), LAMBDA s4, g4 :
    Then(init_write_schema(s4, g4, a), LAMBDA s5, g5 :
    Then(init_write_crs(s5, g5, a), LAMBDA s6, g6 :
    Then(init_enter_env(s6, g6, a), LAMBDA s7, g7 :
    Then(init_start_session(s7, g7, w), LAMBDA s8, g8 :
    init_guard(s8, g8)))))))))

----------------------------------------------------------------------------
(* BytesCollection.__init__(bytesbuf, **kwds) *)

ZipSignature == <<80, 75, 3, 4>>

Prefix(data, n) == SubSeq(data, 1, IF Len(data) < n THEN Len(data) ELSE n)

\* lines 430-437
get_filetype(bytesbuf) ==
    IF Prefix(bytesbuf.data, 4) = ZipSignature THEN "zip" ELSE ""

\* the extension chosen by the driver before the file type
virtual_file_ext_driver_first(bytesbuf, kwds) ==
    IF kwds.driver = "GeoJSON" THEN ".json"
    ELSE IF get_filetype(bytesbuf) = "zip" THEN ".zip"
    ELSE ""

\* lines 459-464
virtual_file_ext(bytesbuf, kwds) ==
    IF get_filetype(bytesbuf) = "zip" THEN ".zip"
    ELSE IF kwds.driver = "GeoJSON" THEN ".json"
    ELSE ""

\* lines 468-469: the arguments of the call of Collection.__init__
super_init_args(s, bytesbuf, kwds) ==
    [kwds EXCEPT !.path = s.virtual_file, !.vsi = get_filetype(bytesbuf),
                 !.encoding = "utf-8"]

\* lines 444-469
BytesCollection__init__(s, g, bytesbuf, kwds, w) ==
    IF bytesbuf.tag # "bytes" THEN Raise(s, g, "ValueError")
    ELSE
    LET ext == virtual_file_ext(bytesbuf, kwds)
        s1 == [s EXCEPT !.bytesbuf = bytesbuf, !.virtual_file = virtual_path(ext)]
        g1 == buffer_to_virtual_file(g, ext)
    IN  Collection__init__(s1, g1, super_init_args(s1, bytesbuf, kwds), w)

----------------------------------------------------------------------------
(* The methods of Collection *)

\* lines 413-416
closed(s) == s.session = None

\* Iterator / ItemsIterator / KeysIterator (self, start, stop, step, bbox, mask)
NewIterator(kind) == [kind |-> kind, pos |-> 0]

\* filter() testing the mode before the closed flag
filter_mode_check_first(s, g, bbox, mask) ==
    IF s.mode # "r" THEN Raise(s, g, "IOError")
    ELSE IF closed(s) THEN Raise(s, g, "ValueError")
    ELSE IF bbox /\ mask THEN Raise(s, g, "ValueError")
    ELSE ReturnValue([s EXCEPT !.iterator = NewIterator("Iterator")], g,
                     Value("Iterator", 0))

\* lines 224-249; bbox and mask tell whether the keyword is given
filter(s, g, bbox, mask) ==
    IF closed(s) THEN Raise(s, g, "ValueError")
    ELSE IF s.mode # "r" THEN Raise(s, g, "IOError")
    ELSE IF bbox /\ mask THEN Raise(s, g, "ValueError")
    ELSE ReturnValue([s EXCEPT !.iterator = NewIterator("Iterator")], g,
                     Value("Iterator", 0))

\* items() without the test of the mode
items_no_mode_check(s, g, bbox, mask) ==
    IF closed(s) THEN Raise(s, g, "ValueError")
    ELSE IF bbox /\ mask THEN Raise(s, g, "ValueError")
    ELSE ReturnValue([s EXCEPT !.iterator = NewIterator("ItemsIterator")], g,
                     Value("ItemsIterator", 0))

\* lines 251-277
items(s, g, bbox, mask) ==
    IF closed(s) THEN Raise(s, g, "ValueError")
    ELSE IF s.mode # "r" THEN Raise(s, g, "IOError")
    ELSE IF bbox /\ mask THEN Raise(s, g, "ValueError")
    ELSE ReturnValue([s EXCEPT !.iterator = NewIterator("ItemsIterator")], g,
                     Value("ItemsIterator", 0))

\* keys() without the test of bbox and mask
keys_either_filter(s, g, bbox, mask) ==
    IF closed(s) THEN Raise(s, g, "ValueError")
    ELSE IF s.mode # "r" THEN Raise(s, g, "IOError")
    ELSE ReturnValue([s EXCEPT !.iterator = NewIterator("KeysIterator")], g,
                     Value("KeysIterator", 0))

\* lines 279-305
keys(s, g, bbox, mask) ==
    IF closed(s) THEN Raise(s, g, "ValueError")
    ELSE IF s.mode # "r" THEN Raise(s, g, "IOError")
    ELSE IF bbox /\ mask THEN Raise(s, g, "ValueError")
    ELSE ReturnValue([s EXCEPT !.iterator = NewIterator("KeysIterator")], g,
                     Value("KeysIterator", 0))

\* lines 312-314
__iter__(s, g) == filter(s, g, FALSE, FALSE)

(* next(iterator): the feature, the (key, feature) pair or the key at the  *)
(* iterator's position, StopIteration past the last one                    *)
iterator_next(s, g) ==
    IF s.iterator.pos >= g.ds.nfeat THEN Raise(s, g, "StopIteration")
    ELSE ReturnValue([s EXCEPT !.iterator.pos = @ + 1], g,
            Value(CASE s.iterator.kind = "Iterator" -> "feature"
                    [] s.iterator.kind = "ItemsIterator" -> "item"
                    [] OTHER -> "key",
                  s.iterator.pos))

\* lines 316-323
__next__(s, g) ==
    IF s.iterator.kind = None
    THEN Then(__iter__(s, g), LAMBDA s1, g1 : iterator_next(s1, g1))
    ELSE iterator_next(s, g)

\* lines 307-308; the session has the features 0 .. nfeat-1
__contains__(s, g, fid) ==
    IF s.session = None THEN Raise(s, g, "AttributeError")
    ELSE ReturnValue(s, g, Value("bool", IF fid < g.ds.nfeat THEN 1 ELSE 0))

\* lines 327-328
__getitem__(s, g, item) ==
    IF s.session = None THEN Raise(s, g, "AttributeError")
    ELSE IF item >= g.ds.nfeat THEN Raise(s, g, "IndexError")
    ELSE ReturnValue(s, g, Value("feature", item))

\* writerecords() without the test of the closed flag
writerecords_no_closed_check(s, g, n) ==
    IF s.mode \notin {"a", "w"} THEN Raise(s, g, "IOError")
    ELSE LET g1 == session_writerecs(g, n)
         IN  Return([s EXCEPT !._len = session_get_length(g1),
                              !._bounds = session_get_extent(g1)], g1)

\* lines 330-338, for a batch of n records
writerecords(s, g, n) ==
    IF closed(s) THEN Raise(s, g, "ValueError")
    ELSE IF s.mode \notin {"a", "w"} THEN Raise(s, g, "IOError")
    ELSE LET g1 == session_writerecs(g, n)
         IN  Return([s EXCEPT !._len = session_get_length(g1),
                              !._bounds = session_get_extent(g1)], g1)

\* lines 340-342
write(s, g) == writerecords(s, g, 1)

\* lines 375-382
__len__(s, g) ==
    LET s1 == IF s._len <= 0 /\ s.session # None
              THEN [s EXCEPT !._len = session_get_length(g)]
              ELSE s
    IN  IF s1._len < 0 THEN Raise(s1, g, "TypeError")
        ELSE ReturnValue(s1, g, Value("int", s1._len))

\* lines 384-389
bounds(s, g) ==
    LET s1 == IF s._bounds = NoneTuple /\ s.session # None
              THEN [s EXCEPT !._bounds = session_get_extent(g)]
              ELSE s
    IN  ReturnValue(s1, g, IF s1._bounds = NoneTuple THEN NoValue
                           ELSE Value("tuple", s1._bounds[3]))

\* Python's `a and b or c` of line 396, with a = new_len > _len, b = new_len
AndOr(a, b, c) == IF a /\ b # 0 THEN b ELSE c

\* flush() without the test of the session
flush_without_session_guard(s, g) ==
    IF s.session = None THEN Raise(s, g, "AttributeError")
    ELSE LET g1 == session_sync(g)
             new_len == session_get_length(g1)
         IN  Return([s EXCEPT !._len = AndOr(new_len > s._len, new_len, s._len),
                              !._bounds = session_get_extent(g1)], g1)

\* lines 391-397
flush(s, g) ==
    IF s.session # None
    THEN LET g1 == session_sync(g)
             new_len == session_get_length(g1)
         IN  Return([s EXCEPT !._len = AndOr(new_len > s._len, new_len, s._len),
                              !._bounds = session_get_extent(g1)], g1)
    ELSE Return(s, g)

\* the session shutdown without `self.session = None`
close_session_keeps_session(s, g) ==
    IF s.session # None
    THEN Then(IF s.mode \in {"a", "w"} THEN flush(s, g) ELSE Return(s, g),
              LAMBDA s1, g1 :
                Return([s1 EXCEPT !.iterator = NoIterator], session_stop(g1)))
    ELSE Return(s, g)

\* lines 402-409
close_session(s, g) ==
    IF s.session # None
    THEN Then(IF s.mode \in {"a", "w"} THEN flush(s, g) ELSE Return(s, g),
              LAMBDA s1, g1 :
                Return([s1 EXCEPT !.session = None, !.iterator = NoIterator],
                       session_stop(g1)))
    ELSE Return(s, g)

\* lines 410-411
close_env(s, g) ==
    IF Truthy(s.env) THEN Return(s, env_exit(g)) ELSE Return(s, g)

\* close() exiting the runtime context before it stops the session
Collection_close_env_first(s, g) ==
    IF s.session = Unset THEN Raise(s, g, "AttributeError")
    ELSE Then(close_env(s, g), LAMBDA s1, g1 : close_session(s1, g1))

(* lines 399-411; on an object whose __init__ raised before line 80 the    *)
(* attribute session does not exist                                        *)
Collection_close(s, g) ==
    IF s.session = Unset THEN Raise(s, g, "AttributeError")
    ELSE Then(close_session(s, g), LAMBDA s1, g1 : close_env(s1, g1))

\* lines 471-477
BytesCollection_close(s, g) ==
    Then(Collection_close(s, g), LAMBDA s1, g1 :
        IF Truthy(s1.virtual_file)
        THEN Return([s1 EXCEPT !.virtual_file = None, !.bytesbuf = NoBytes],
                    remove_virtual_file(g1, s1.virtual_file))
        ELSE Return(s1, g1))

\* self.close(), by the class of self
close(s, g) ==
    IF s.cls = "BytesCollection" THEN BytesCollection_close(s, g)
    ELSE Collection_close(s, g)

\* lines 418-419
__enter__(s, g) == Return(s, g)

\* lines 421-422
__exit__(s, g) == close(s, g)

\* lines 424-427
__del__(s, g) == close(s, g)

\* lines 181-186
driver(s, g) ==
    IF ~Truthy(s._driver) /\ s.mode \in {"a", "r"} /\ Truthy(s.session)
    THEN ReturnValue([s EXCEPT !._driver = session_get_driver(g)],
                     Queried(g, "driver"), Value("driver", 0))
    ELSE ReturnValue(s, g, Value("driver", 0))

\* the schema accessor without the test of the cached value
schema_requeries(s, g) ==
    IF s.mode \in {"a", "r"} /\ Truthy(s.session)
    THEN ReturnValue([s EXCEPT !._schema = DatasetSchema],
                     Queried(g, "schema"), Value("schema", 0))
    ELSE ReturnValue(s, g, Value("schema", 0))

\* lines 188-198
schema(s, g) ==
    IF ~SchemaTruthy(s._schema) /\ s.mode \in {"a", "r"} /\ Truthy(s.session)
    THEN ReturnValue([s EXCEPT !._schema = DatasetSchema],
                     Queried(g, "schema"), Value("schema", 0))
    ELSE ReturnValue(s, g, Value("schema", 0))

\* lines 200-205
crs(s, g) ==
    IF s._crs = None /\ Truthy(s.session)
    THEN ReturnValue([s EXCEPT !._crs = DatasetCrs],
                     Queried(g, "crs"), Value("crs", 0))
    ELSE ReturnValue(s, g, Value("crs", 0))

\* lines 207-212
crs_wkt(s, g) ==
    IF s._crs_wkt = None /\ Truthy(s.session)
    THEN ReturnValue([s EXCEPT !._crs_wkt = DatasetCrsWkt],
                     Queried(g, "crs_wkt"), Value("crs_wkt", 0))
    ELSE ReturnValue(s, g, Value("crs_wkt", 0))

\* lines 214-220
meta(s, g) ==
    Then(driver(s, g), LAMBDA s1, g1 :
    Then(schema(s1, g1), LAMBDA s2, g2 :
    Then(crs(s2, g2), LAMBDA s3, g3 :
    Then(crs_wkt(s3, g3), LAMBDA s4, g4 :
    ReturnValue(s4, g4, Value("meta", 0))))))

----------------------------------------------------------------------------
(* Collection.validate_record_geometry(record): geometry type names are    *)
(* Python strings, and the method works on their characters.               *)

cPoint == <<"P", "o", "i", "n", "t">>
cLineString == <<"L", "i", "n", "e", "S", "t", "r", "i", "n", "g">>
cPolygon == <<"P", "o", "l", "y", "g", "o", "n">>
cGeometryCollection ==
    <<"G", "e", "o", "m", "e", "t", "r", "y",
      "C", "o", "l", "l", "e", "c", "t", "i", "o", "n">>
cMulti == <<"M", "u", "l", "t", "i">>
c3D == <<"3", "D", " ">>

\* the characters of a geometry type name
Chars(t) ==
    CASE t = "Point" -> cPoint
      [] t = "LineString" -> cLineString
      [] t = "Polygon" -> cPolygon
      [] t = "GeometryCollection" -> cGeometryCollection
      [] t = "MultiPoint" -> cMulti \o cPoint
      [] t = "MultiLineString" -> cMulti \o cLineString
      [] t = "MultiPolygon" -> cMulti \o cPolygon
      [] t = "3D Point" -> c3D \o cPoint
      [] t = "3D LineString" -> c3D \o cLineString
      [] t = "3D Polygon" -> c3D \o cPolygon
      [] t = "3D MultiPoint" -> c3D \o cMulti \o cPoint
      [] t = "3D MultiLineString" -> c3D \o cMulti \o cLineString
      [] t = "3D MultiPolygon" -> c3D \o cMulti \o cPolygon

Range(seq) == {seq[i] : i \in DOMAIN seq}

\* str.lstrip(chars): drops leading characters while they are among chars
RECURSIVE lstrip(_, _)
lstrip(str, chars) ==
    IF str # <<>> /\ Head(str) \in Range(chars)
    THEN lstrip(Tail(str), chars)
    ELSE str

\* Python's `sub in str`
Contains(str, sub) ==
    \E i \in 1..(Len(str) - Len(sub) + 1) :
        SubSeq(str, i, i + Len(sub) - 1) = sub

Bool(b) == Value("bool", IF b THEN 1 ELSE 0)

\* the comparison without the case of the shapefile driver
validate_record_geometry_exact(s, g, type) ==
    Then(schema(s, g), LAMBDA s1, g1 :
        IF ~SchemaTruthy(s1._schema) THEN Raise(s1, g1, "TypeError")
        ELSE ReturnValue(s1, g1,
                Bool(Chars(type) = lstrip(Chars(s1._schema.geometry), c3D))))

(* lines 356-373; type is record['geometry']['type']. self.schema is None  *)
(* on a collection that was closed before it had a schema.                 *)
validate_record_geometry(s, g, type) ==
    Then(driver(s, g), LAMBDA s1, g1 :
    Then(schema(s1, g1), LAMBDA s2, g2 :
        IF ~SchemaTruthy(s2._schema) THEN Raise(s2, g2, "TypeError")
        ELSE IF s2._driver = "ESRI Shapefile" /\ ~Contains(Chars(type), cPoint)
        THEN ReturnValue(s2, g2,
                Bool(lstrip(Chars(type), cMulti)
                     = lstrip(lstrip(Chars(s2._schema.geometry), c3D), cMulti)))
        ELSE ReturnValue(s2, g2,
                Bool(Chars(type) = lstrip(Chars(s2._schema.geometry), c3D)))))

----------------------------------------------------------------------------
(* The inputs of the model *)

ArgDefaults ==
    [path |-> "/data/test_uk.shp", mode |-> "r", driver |-> None,
     schema |-> NoSchema, crs |-> None, encoding |-> None, layer |-> None,
     vsi |-> None, archive |-> None, crs_wkt |-> None]

ModeArgs == {"r", "w", "a", "x", "<int>"}
DriverArgs == {None, "ESRI Shapefile", "Shapefile", "GeoJSON", "OpenFileGDB",
               "GPKG", "FooBar", "<int>"}
FullSchema == DictSchema({"properties", "geometry"}, "Point")
SchemaArgs == {NoSchema, FullSchema, DictSchema({"geometry"}, "Point"),
               DictSchema({"properties"}, None), DictSchema({}, None), ObjSchema}

\* every mode, driver and schema, the other arguments left out; in modes
\* 'r' and 'a' the driver is only stored, and one name stands for all
CoreArgs ==
    {[ArgDefaults EXCEPT !.mode = m, !.driver = d, !.schema = sc] :
        m \in ModeArgs \ {"r", "a"}, d \in DriverArgs, sc \in SchemaArgs}
    \cup
    {[ArgDefaults EXCEPT !.mode = "r", !.driver = d, !.schema = sc] :
        d \in {None, "GeoJSON", "<int>"}, sc \in {NoSchema, FullSchema, ObjSchema}}
    \cup
    {[ArgDefaults EXCEPT !.mode = "a", !.driver = d, !.schema = sc] :
        d \in {None, "<int>"}, sc \in {NoSchema, ObjSchema}}

\* well-formed calls, to which one more argument is added
BaseArgs ==
    {ArgDefaults,
     [ArgDefaults EXCEPT !.mode = "a"],
     [ArgDefaults EXCEPT !.mode = "w", !.driver = "GeoJSON", !.schema = FullSchema]}

MoreArgs ==
    UNION {
        {[b EXCEPT !.path = "<int>"]}
        \cup {[b EXCEPT !.crs = v] : v \in {"+init=epsg:4326", "bogus", "<int>"}}
        \cup {[b EXCEPT !.crs_wkt = v] : v \in {"GEOGCS[WGS 84]", "<int>"}}
        \cup {[b EXCEPT !.crs = "bogus", !.crs_wkt = "GEOGCS[WGS 84]"]}
        \cup {[b EXCEPT !.encoding = v] : v \in {"utf-8", "<int>"}}
        \cup {[b EXCEPT !.layer = v] : v \in {"layer", "<int>", "<obj>"}}
        \cup {[b EXCEPT !.vsi = v] : v \in {"zip", "bogus", "<int>"}}
        \cup {[b EXCEPT !.archive = v] : v \in {"a.zip", "<int>"}}
        : b \in BaseArgs}

CtorArgs == CoreArgs \cup MoreArgs

\* the keyword arguments of BytesCollection: path, vsi, encoding are its own
BytesKwds ==
    {a \in CtorArgs : /\ a.path = ArgDefaults.path /\ a.vsi = None
                      /\ a.encoding = None /\ a.mode # "a"
                      /\ a.driver \in {None, "GeoJSON", "<int>"}
                      /\ a.crs = None /\ a.crs_wkt = None}

Bytes(data) == [tag |-> "bytes", data |-> data]
BufferArgs ==
    {Bytes(<<80, 75, 3, 4, 20>>), Bytes(<<80, 75, 3>>), Bytes(<<123, 125>>),
     [tag |-> "str", data |-> <<>>]}

\* the geometry types of records, and those of schemas
RecordGeometryTypes ==
    {"Point", "LineString", "Polygon", "GeometryCollection",
     "MultiPoint", "MultiLineString", "MultiPolygon", "3D Point", "3D Polygon"}
SchemaGeometryTypes ==
    {"Point", "LineString", "Polygon", "GeometryCollection",
     "MultiPoint", "MultiLineString", "MultiPolygon",
     "3D Point", "3D LineString", "3D Polygon",
     "3D MultiPoint", "3D MultiLineString", "3D MultiPolygon"}

\* collections of each schema geometry type, with and without the shapefile
\* driver, and one that reads its driver and schema from the session
GeometryArgs ==
    {[ArgDefaults EXCEPT !.mode = "w", !.driver = d,
                         !.schema = DictSchema({"properties", "geometry"}, t)] :
        d \in {"ESRI Shapefile", "GeoJSON"}, t \in SchemaGeometryTypes}
    \cup {ArgDefaults}

\* the datasets that may be found at the path
Disk(d, n, c) == [driver |-> d, nfeat |-> n, nsynced |-> n, counting |-> c]
Disks ==
    {Disk("ESRI Shapefile", n, "exact") : n \in {0, MaxRecs}}
    \cup {Disk("ESRI Shapefile", 1, "lazy"), Disk("ESRI Shapefile", 0, "late"),
          Disk("GeoJSON", 1, "none"), Disk("FooBar", 1, "exact")}

Worlds ==
    [disk : Disks, start_exc : {None, "IOError", "DriverError"}, gdal_old : BOOLEAN]

\* the worlds a buffer is opened in
BytesWorlds ==
    {w \in Worlds : w.disk \in {Disk("ESRI Shapefile", MaxRecs, "exact"),
                                Disk("FooBar", 1, "exact")}}

----------------------------------------------------------------------------
(* The state machine: one object, and a caller that constructs it and then *)
(* calls its methods in any order; the finalizer may run at any time after *)
(* construction, and is the only call made on an object whose constructor  *)
(* raised.                                                                 *)

\* last: the call, its exception and value, whether the collection was closed
\* and its mode when the call was made, the arguments of a constructor, and
\* the geometry type of the record given to validate_record_geometry
NoCall ==
    [op |-> None, exc |-> None, ret |-> NoValue, closed |-> FALSE, mode |-> Unset,
     cls |-> None, args |-> ArgDefaults, buf |-> NoBytes, record |-> None]

Init ==
    /\ pc = "new"
    /\ self = Blank(None)
    /\ gdal = NoGdal
    /\ last = NoCall

\* the bounds of the model, on what a call leaves behind
WithinBounds(r) ==
    /\ Len(r.gdal.log) <= MaxLog
    /\ r.gdal.ds.nfeat <= MaxRecs
    /\ r.gdal.writerecs <= MaxWrites

\* the call op was made and left r behind; the caller moves to next
Called(op, r, next) ==
    /\ WithinBounds(r)
    /\ self' = r.self
    /\ gdal' = r.gdal
    /\ last' = [NoCall EXCEPT !.op = op, !.exc = r.exc, !.ret = r.ret,
                              !.closed = closed(self), !.mode = self.mode,
                              !.cls = self.cls]
    /\ pc' = next

\* the constructor of cls was called with a (and the buffer buf), and left r
Constructed(cls, a, buf, r) ==
    /\ WithinBounds(r)
    /\ self' = r.self
    /\ gdal' = r.gdal
    /\ last' = [NoCall EXCEPT !.op = "__init__", !.exc = r.exc, !.cls = cls,
                              !.args = a, !.buf = buf]
    /\ pc' = IF r.exc = None THEN "open" ELSE "failed"

NewCollection ==
    /\ pc = "new"
    /\ \E a \in CtorArgs, w \in Worlds :
        Constructed("Collection", a, NoBytes,
                    Collection__init__(Blank("Collection"), gdal, a, w))

NewBytesCollection ==
    /\ pc = "new"
    /\ \E b \in BufferArgs, k \in BytesKwds, w \in BytesWorlds :
        Constructed("BytesCollection", k, b,
                    BytesCollection__init__(Blank("BytesCollection"), gdal, b, k, w))

CallFilter ==
    /\ pc = "open"
    /\ \E bbox \in BOOLEAN, mask \in BOOLEAN :
        Called("filter", filter(self, gdal, bbox, mask), "open")

CallItems ==
    /\ pc = "open"
    /\ \E bbox \in BOOLEAN, mask \in BOOLEAN :
        Called("items", items(self, gdal, bbox, mask), "open")

CallKeys ==
    /\ pc = "open"
    /\ \E bbox \in BOOLEAN, mask \in BOOLEAN :
        Called("keys", keys(self, gdal, bbox, mask), "open")

CallIter == pc = "open" /\ Called("__iter__", __iter__(self, gdal), "open")

CallNext == pc = "open" /\ Called("__next__", __next__(self, gdal), "open")

CallContains ==
    /\ pc = "open"
    /\ \E fid \in {0, MaxRecs} :
        Called("__contains__", __contains__(self, gdal, fid), "open")

CallGetItem ==
    /\ pc = "open"
    /\ \E item \in {0, MaxRecs} :
        Called("__getitem__", __getitem__(self, gdal, item), "open")

\* an empty batch or a full one; write() is the batch of one record
CallWriteRecords ==
    /\ pc = "open"
    /\ \E n \in {0, MaxBatch} :
        Called("writerecords", writerecords(self, gdal, n), "open")

CallWrite == pc = "open" /\ Called("write", write(self, gdal), "open")

CallLen == pc = "open" /\ Called("__len__", __len__(self, gdal), "open")

CallBounds == pc = "open" /\ Called("bounds", bounds(self, gdal), "open")

CallFlush == pc = "open" /\ Called("flush", flush(self, gdal), "open")

CallClose == pc = "open" /\ Called("close", close(self, gdal), "open")

CallEnter == pc = "open" /\ Called("__enter__", __enter__(self, gdal), "open")

CallExit == pc = "open" /\ Called("__exit__", __exit__(self, gdal), "open")

CallDel == pc \in {"open", "failed"} /\ Called("__del__", __del__(self, gdal), "dead")

CallDriver == pc = "open" /\ Called("driver", driver(self, gdal), "open")

CallSchema == pc = "open" /\ Called("schema", schema(self, gdal), "open")

CallCrs == pc = "open" /\ Called("crs", crs(self, gdal), "open")

CallCrsWkt == pc = "open" /\ Called("crs_wkt", crs_wkt(self, gdal), "open")

CallMeta == pc = "open" /\ Called("meta", meta(self, gdal), "open")

NewCollectionWithGeometry ==
    /\ pc = "new"
    /\ \E a \in GeometryArgs :
        Constructed("Collection", a, NoBytes,
            Collection__init__(Blank("Collection"), gdal, a,
                [disk |-> Disk("ESRI Shapefile", MaxRecs, "exact"),
                 start_exc |-> None, gdal_old |-> FALSE]))

CallValidateRecordGeometry ==
    /\ pc = "open"
    /\ \E type \in RecordGeometryTypes :
        LET r == validate_record_geometry(self, gdal, type) IN
        /\ WithinBounds(r)
        /\ self' = r.self
        /\ gdal' = r.gdal
        /\ last' = [NoCall EXCEPT !.op = "validate_record_geometry",
                                  !.exc = r.exc, !.ret = r.ret,
                                  !.closed = closed(self), !.mode = self.mode,
                                  !.cls = self.cls, !.record = type]
        /\ pc' = "open"

\* construction, the life cycle, writing, length and bounds, lookups
Common ==
    \/ NewCollection
    \/ NewBytesCollection
    \/ CallContains
    \/ CallGetItem
    \/ CallWriteRecords
    \/ CallWrite
    \/ CallLen
    \/ CallBounds
    \/ CallFlush
    \/ CallClose
    \/ CallEnter
    \/ CallExit
    \/ CallDel

Iteration ==
    \/ CallFilter
    \/ CallItems
    \/ CallKeys
    \/ CallIter
    \/ CallNext

Metadata ==
    \/ CallDriver
    \/ CallSchema
    \/ CallCrs
    \/ CallCrsWkt
    \/ CallMeta

Next == Common \/ Iteration

NextMeta == Common \/ Metadata

\* the collection as a file-like object: everything but the metadata accessors
Spec == Init /\ [][Next]_vars

\* the collection and its metadata accessors: everything but iteration
SpecMeta == Init /\ [][NextMeta]_vars

NextValidate ==
    \/ NewCollectionWithGeometry
    \/ CallValidateRecordGeometry
    \/ CallClose

\* the validation of the geometry of records, on open and closed collections
SpecValidate == Init /\ [][NextValidate]_vars

----------------------------------------------------------------------------
(* Properties *)

Enters == Count(gdal.log, "env.enter")
Exits == Count(gdal.log, "env.exit")

IterationCalls == {"filter", "items", "keys", "__iter__", "__next__"}
WriteCalls == {"writerecords", "write"}

(* C1: on a closed collection each of filter(), items(), keys(),           *)
(* iter(collection) and next(collection) raises ValueError, returns        *)
(* nothing and leaves no iterator on the collection, whatever the mode     *)
(* 'r', 'a' or 'w' of the collection.                                      *)
C1_ClosedIterationRaises ==
    (last.op \in IterationCalls /\ last.closed) =>
        /\ last.exc = "ValueError"
        /\ last.ret = NoValue
        /\ self.iterator = NoIterator

\* next(collection) was called on a closed collection of mode 'w'
C1_Witness ==
    /\ last.op = "__next__" /\ last.closed /\ last.mode = "w"
    /\ last.exc = "ValueError"

AfterCloseCalls ==
    {"__len__", "bounds", "__contains__", "__getitem__", "flush",
     "writerecords", "write", "driver", "schema", "crs", "crs_wkt", "meta"}

C2_AfterCloseState ==
    (last.op \in AfterCloseCalls /\ last.closed) =>
        /\ last.op \in WriteCalls => last.exc = "ValueError"
        /\ last.op \in {"__contains__", "__getitem__"} => last.exc = "AttributeError"
        /\ last.op = "__len__" =>
            \/ last.exc = None /\ last.ret = Value("int", self._len) /\ self._len >= 0
            \/ last.exc = "TypeError" /\ self._len < 0
        /\ last.op \in {"bounds", "driver", "schema", "crs", "crs_wkt", "meta", "flush"} =>
            last.exc = None
        /\ last.op = "flush" => last.ret = NoValue

\* a call made after close() changes nothing
C2_AfterCloseStep ==
    (pc = "open" /\ closed(self) /\ last'.op \in AfterCloseCalls) =>
        /\ self' = self
        /\ gdal' = gdal

C3_EnvExitedAtMostOnce == Exits <= Enters /\ Enters <= 1

(* C4: when session.start() fails in the constructor, the constructor      *)
(* raises that failure and the collection keeps no session:                *)
(* collection.session is None.                                             *)
C4_StartFailureLeavesClosed ==
    (last.op = "__init__" /\ gdal.sess = "failed") =>
        /\ last.exc # None
        /\ self.session = None

(* C5: when the constructor fails after env.__enter__() has run, the       *)
(* runtime context has been exited when the constructor raises.            *)
C5_FailedOpenExitsEnv ==
    (last.op = "__init__" /\ last.exc # None /\ Enters > 0) => Exits = Enters

(* C6: when the driver the started session reports is not in the support   *)
(* table, or does not permit the mode, the constructor raises DriverError, *)
(* the session has been stopped and collection.session is None.            *)
C6_GuardFailureKeepsNoSession ==
    (last.op = "__init__" /\ last.exc # None /\ Count(gdal.log, "start") > 0
        /\ gdal.sess # "failed") =>
        /\ last.exc = "DriverError"
        /\ gdal.sess = "stopped"
        /\ self.session = None

(* C7: a constructor of Collection or BytesCollection that raises on a     *)
(* malformed argument (TypeError, or ValueError for the buffer and the     *)
(* layer) has entered no runtime context, started no session and mapped no *)
(* virtual file.                                                           *)
C7_ArgumentErrorTouchesNothing ==
    (last.op = "__init__" /\ last.exc \in {"TypeError", "ValueError"}) =>
        /\ gdal.log = <<>>
        /\ gdal.sess = "none"
        /\ gdal.vsimem = {}

\* the driver argument as mode 'w' takes it: 'Shapefile' names 'ESRI Shapefile'
WriteDriver(a) == IF a.driver = "Shapefile" THEN "ESRI Shapefile" ELSE a.driver

DriverProblem(a) ==
    \/ a.driver \in {None, ""}
    \/ WriteDriver(a) \notin DOMAIN supported_drivers
    \/ "w" \notin supported_drivers[WriteDriver(a)]

SchemaProblem(a) ==
    \/ a.schema = NoSchema
    \/ a.schema.keys = {}
    \/ "properties" \notin a.schema.keys
    \/ "geometry" \notin a.schema.keys

NothingOpened ==
    /\ Enters = 0
    /\ Count(gdal.log, "start") = 0
    /\ gdal.sess = "none"
    /\ self.session \in {None, Unset}
    /\ self.env \in {None, Unset}

(* C8: in mode 'w' the constructor raises, before the runtime context is   *)
(* entered and before a session is created, when the driver is missing,    *)
(* not in the support table or without mode 'w' (DriverError, the name     *)
(* 'Shapefile' standing for 'ESRI Shapefile') and when the schema is       *)
(* missing or lacks 'properties' or 'geometry' (SchemaError, the driver    *)
(* being checked first); an error raised by an earlier argument check is   *)
(* a TypeError or ValueError. In modes 'r' and 'a' a call without driver   *)
(* and schema raises no DriverError or SchemaError before the runtime      *)
(* context is entered.                                                     *)
C8_WriteModeNeedsDriverAndSchema ==
    last.op = "__init__" =>
        LET a == last.args IN
        /\ (a.mode = "w" /\ (DriverProblem(a) \/ SchemaProblem(a))) =>
            /\ last.exc # None
            /\ NothingOpened
            /\ (last.exc \notin {"TypeError", "ValueError"} /\ DriverProblem(a)) =>
                    last.exc = "DriverError"
            /\ (last.exc \notin {"TypeError", "ValueError"} /\ ~DriverProblem(a)
                    /\ ~(a.driver = "GPKG" /\ last.exc = "DriverError")) =>
                    last.exc = "SchemaError"
        /\ (a.mode \in {"r", "a"} /\ a.driver = None /\ a.schema = NoSchema
                /\ last.exc \in {"DriverError", "SchemaError"}) =>
            Enters = 1

\* mode 'w' with a supported driver and a schema without 'geometry'
C8_Witness ==
    /\ last.op = "__init__" /\ last.args.mode = "w"
    /\ last.args.driver = "GeoJSON"
    /\ last.args.schema = DictSchema({"properties"}, None)
    /\ last.exc = "SchemaError" /\ NothingOpened

(* C9: on an open collection of mode 'w' or 'a' each of filter(), items(), *)
(* keys() and iter(collection) raises IOError, returns no iterator and     *)
(* leaves collection.iterator as it was, None.                             *)
C9_NoIterationWhenWriting ==
    (last.op \in {"filter", "items", "keys", "__iter__"} /\ ~last.closed
        /\ last.mode \in {"w", "a"}) =>
        /\ last.exc = "IOError"
        /\ last.ret = NoValue
        /\ self.iterator = NoIterator

\* items() was called on an open collection of mode 'a'
C9_Witness ==
    /\ last.op = "items" /\ ~last.closed /\ last.mode = "a"
    /\ last.exc = "IOError" /\ self.session = "WritingSession"

\* the exception of a rejected write
C10_RejectedState ==
    last.op \in WriteCalls =>
        /\ last.closed => last.exc = "ValueError"
        /\ (~last.closed /\ last.mode = "r") => last.exc = "IOError"

\* a rejected write changes neither the session nor the caches
C10_RejectedStep ==
    (pc = "open" /\ last'.op \in WriteCalls /\ last'.exc # None) =>
        /\ gdal'.writerecs = gdal.writerecs
        /\ self'._len = self._len
        /\ self'._bounds = self._bounds

(* C10: writerecords() and write() raise ValueError on a closed collection *)
(* and IOError on an open collection of mode 'r'; a call that raises does  *)
(* not call session.writerecs and leaves the cached length and the cached  *)
(* bounds as they were.                                                    *)
C10_RejectedWritesChangeNothing == []C10_RejectedState /\ [][C10_RejectedStep]_vars

\* write() was rejected on a closed collection that had cached a length
C10_Witness ==
    /\ last.op = "write" /\ last.closed /\ last.exc = "ValueError"
    /\ gdal.writerecs > 0 /\ self._len > 0 /\ self._bounds # NoneTuple

\* filter(), items() and keys() called with both a bbox and a mask
BothFilters(s, g) ==
    {filter(s, g, TRUE, TRUE), items(s, g, TRUE, TRUE), keys(s, g, TRUE, TRUE)}

\* in every state of a constructed collection, what such a call would do
C11_BothFiltersState ==
    pc = "open" =>
        \A r \in BothFilters(self, gdal) :
            /\ r.exc # None
            /\ r.ret = NoValue
            /\ r.self = self
            /\ r.gdal = gdal
            /\ __next__(r.self, r.gdal) = __next__(self, gdal)

\* a call that raises ValueError on an open collection of mode 'r' is one
\* with both a bbox and a mask
C11_BothFiltersStep ==
    (pc = "open" /\ ~closed(self) /\ self.mode = "r"
        /\ last'.op \in {"filter", "items", "keys"} /\ last'.exc = "ValueError") =>
        /\ self' = self
        /\ gdal' = gdal
        /\ last'.ret = NoValue

(* C11: filter(), items() and keys() called with both a bbox and a mask    *)
(* raise an error (ValueError on an open collection of mode 'r') and       *)
(* return nothing; no iterator is made, collection.iterator and the rest   *)
(* of the collection are as before, and next(collection) does after the    *)
(* call what it would have done before it.                                 *)
C11_BothFiltersRejected == []C11_BothFiltersState /\ [][C11_BothFiltersStep]_vars

\* keys(bbox=..., mask=...) was rejected while an iterator stood at feature 1
C11_Witness ==
    /\ last.op = "keys" /\ ~last.closed /\ last.mode = "r"
    /\ last.exc = "ValueError"
    /\ self.iterator = [kind |-> "Iterator", pos |-> 1]
    /\ gdal.ds.nfeat = MaxRecs

\* a dataset created by this collection holds what was written to it
Created == self.mode = "w" /\ gdal.sess # "none"

(* C12: after a successful writerecords() or write() the cached length and *)
(* the cached bounds are the session's get_length() and get_extent(); and  *)
(* on a dataset the collection created, len(collection) returns the number *)
(* of records written so far, in whatever batches they were written.       *)
C12_LengthIsRecordsWritten ==
    (last.op \in WriteCalls /\ last.exc = None) =>
        /\ self._len = session_get_length(gdal)
        /\ self._bounds = session_get_extent(gdal)
        /\ Created =>
                LET r == __len__(self, gdal)
                IN  r.exc = None /\ r.ret = Value("int", gdal.ds.nfeat)

Max(a, b) == IF a >= b THEN a ELSE b

\* flush() on an open collection of mode 'a' or 'w'
C13_FlushStep ==
    (pc = "open" /\ ~closed(self) /\ self.mode \in {"a", "w"}
        /\ last'.op = "flush") =>
        /\ last'.exc = None
        /\ self'._len >= self._len
        /\ self'._len = Max(self._len, session_get_length(gdal'))
        /\ self'._bounds = session_get_extent(gdal')

(* C13: flush() on an open collection of mode 'a' or 'w' never decreases   *)
(* the cached length: after it the cached length is the larger of the      *)
(* cached length before it and the length the session reports once synced, *)
(* and the cached bounds are the session's extent.                         *)
C13_FlushKeepsLargerLength == [][C13_FlushStep]_vars

CloseCalls == {"close", "__exit__", "__del__"}

\* the native calls made so far are in order
C14_OrderedLog ==
    LET log == gdal.log IN
    /\ \A i \in DOMAIN log :
            log[i] = "start" => \E j \in 1..(i - 1) : log[j] = "env.enter"
    /\ \A i \in DOMAIN log, j \in DOMAIN log :
            (log[i] = "env.exit" /\ j < i /\ log[j] = "start"
                /\ gdal.sess # "failed") =>
                \E k \in (j + 1)..(i - 1) : log[k] = "stop"
    /\ (Exits > 0 /\ Count(log, "start") > 0) => gdal.sess # "started"

\* the native calls close() makes on an open collection
C14_CloseStep ==
    (pc \in {"open", "failed"} /\ self.session \notin {None, Unset}
        /\ last'.op \in CloseCalls) =>
        gdal'.log = gdal.log
                    \o (IF self.mode \in {"a", "w"} THEN <<"sync">> ELSE <<>>)
                    \o <<"stop", "env.exit">>
                    \o (IF self.cls = "BytesCollection" THEN <<"vsi.unmap">> ELSE <<>>)

(* C14: the runtime context is entered before the session is started;      *)
(* close() of an open collection syncs (in modes 'a' and 'w' only), then   *)
(* stops the session, then exits the runtime context; the runtime context  *)
(* is never exited while the session is started, and in mode 'r' close()  *)
(* syncs nothing.                                                          *)
C14_AcquireAndReleaseInOrder == []C14_OrderedLog /\ [][C14_CloseStep]_vars

\* an open collection of mode 'a' was closed
C14_Witness ==
    /\ last.op = "close" /\ ~last.closed /\ last.mode = "a"
    /\ gdal.log = <<"env.enter", "start", "sync", "stop", "env.exit">>

Starts == Count(gdal.log, "start")
Stops == Count(gdal.log, "stop")

\* the session is started and stopped at most once
C15_OneSession == Starts <= 1 /\ Stops <= 1

\* only the constructor starts a session, and a closed collection stays closed
C15_Step ==
    /\ Count(gdal'.log, "start") > Starts => last'.op = "__init__"
    /\ (pc # "new" /\ closed(self)) => closed(self')

(* C15: session.start() is called at most once, and only by the            *)
(* constructor; session.stop() is called at most once however often       *)
(* close() runs; and once collection.closed is true no operation makes it  *)
(* false again.                                                            *)
C15_OneSessionClosedOnce == []C15_OneSession /\ [][C15_Step]_vars

\* close() ran on a collection that had been closed before
C15_Witness ==
    /\ last.op \in CloseCalls /\ last.closed /\ last.exc = None
    /\ Starts = 1 /\ Stops = 1 /\ Exits = 2 /\ closed(self)

\* the object is alive and holds the buffer it was given
HoldsBuffer == pc # "dead" /\ self.bytesbuf.tag = "bytes"

(* C16: while the virtual file mapping of a BytesCollection exists, the    *)
(* collection holds the reference to the byte buffer: the reference is     *)
(* dropped (by close(), or with the object itself) only once the mapping   *)
(* has been removed.                                                       *)
C16_BufferHeldWhileMapped == gdal.vsimem # {} => HoldsBuffer

Maps == Count(gdal.log, "vsi.map")
Unmaps == Count(gdal.log, "vsi.unmap")

\* after close() the mapping the constructor created has been removed, once
C17_UnmappedOnce ==
    /\ Unmaps <= Maps
    /\ Unmaps > 0 => gdal.sess # "started"
    /\ (last.op \in CloseCalls /\ last.cls = "BytesCollection" /\ Maps > 0) =>
            /\ Unmaps = 1
            /\ gdal.vsimem = {}
            /\ self.virtual_file = None
            /\ self.bytesbuf = NoBytes

\* close() removes the mapping after the shutdown of the collection
C17_CloseStep ==
    (self.cls = "BytesCollection" /\ last'.op \in CloseCalls /\ Unmaps' > Unmaps) =>
        /\ gdal'.log[Len(gdal'.log)] = "vsi.unmap"
        /\ closed(self')
        /\ self.session \notin {None, Unset} =>
                SubSeq(gdal'.log, Len(gdal'.log) - 2, Len(gdal'.log))
                    = <<"stop", "env.exit", "vsi.unmap">>

(* C17: close() of a BytesCollection runs the shutdown of Collection       *)
(* (flush when writing, session stop, context exit), then removes the      *)
(* virtual file mapping and drops the buffer reference; however often      *)
(* close() runs, remove_virtual_file is called exactly once for the        *)
(* mapping the constructor created, and never while the session is         *)
(* started.                                                                *)
C17_BytesCloseRemovesMappingOnce == []C17_UnmappedOnce /\ [][C17_CloseStep]_vars

Accessors == {"driver", "schema", "crs", "crs_wkt"}

\* the accessors a call goes through
Accessed(op) == IF op = "meta" THEN Accessors ELSE {op} \cap Accessors

\* the argument k was given to the constructor
Supplied(a, k) ==
    CASE k = "driver" -> Truthy(a.driver)
      [] k = "schema" -> SchemaTruthy(a.schema)
      [] k = "crs" -> Truthy(a.crs)
      [] k = "crs_wkt" -> Truthy(a.crs_wkt)

\* the collection has a value for k
Cached(s, k) ==
    CASE k = "driver" -> Truthy(s._driver)
      [] k = "schema" -> SchemaTruthy(s._schema)
      [] k = "crs" -> s._crs # None
      [] k = "crs_wkt" -> s._crs_wkt # None

CachedValue(s, k) ==
    CASE k = "driver" -> <<s._driver>>
      [] k = "schema" -> <<s._schema>>
      [] k = "crs" -> <<s._crs>>
      [] k = "crs_wkt" -> <<s._crs_wkt>>

\* the first call after a constructor that was given k does not query k
C18_SuppliedStep ==
    (last.op = "__init__" /\ last.exc = None /\ last'.op \in Accessors \cup {"meta"}) =>
        \A k \in Accessors :
            Supplied(last.args, k) => gdal'.queries[k] = gdal.queries[k]

(* C18, as claimed: the session is never queried for a value of driver,    *)
(* schema, crs or crs_wkt that was supplied at construction, and is        *)
(* queried at most once for one that was not.                              *)
C18_SuppliedNeverQueried ==
    /\ [](\A k \in Accessors \ {"driver"} : gdal.queries[k] <= 1)
    /\ [][C18_SuppliedStep]_vars

\* the constructor keeps the argument k as the value of the collection
Stored(a, k) ==
    CASE k = "driver" -> Truthy(a.driver)
      [] k = "schema" -> a.mode = "w"
      [] k = "crs" -> a.mode = "w" /\ ~Truthy(a.crs_wkt) /\ Truthy(a.crs)
      [] k = "crs_wkt" -> a.mode = "w" /\ Truthy(a.crs_wkt)

\* the session can be asked for k: driver and schema in modes 'a', 'r' only
Askable(s, k) ==
    /\ Truthy(s.session)
    /\ k \in {"driver", "schema"} => s.mode \in {"a", "r"}

\* what the constructor leaves, and how often the session is queried at all
C18_QueriesState ==
    /\ \A k \in Accessors \ {"driver"} : gdal.queries[k] <= 1
    /\ gdal.queries["driver"] <= 2
    /\ (last.op = "__init__" /\ last.exc = None) =>
            /\ \A k \in Accessors : Cached(self, k) <=> Stored(last.args, k)
            /\ gdal.queries = [NoGdal.queries EXCEPT !["driver"] = 1]

\* what a call after construction does to the cached values and the session
C18_AccessStep ==
    pc \in {"open", "failed"} =>
        \A k \in Accessors :
            LET before == gdal.queries[k]
                after == gdal'.queries[k]
            IN  IF k \in Accessed(last'.op) /\ ~Cached(self, k) /\ Askable(self, k)
                THEN after = before + 1 /\ Cached(self', k)
                ELSE /\ after = before
                     /\ CachedValue(self', k) = CachedValue(self, k)

(* C18, amended: the constructor keeps a driver argument in every mode,    *)
(* but schema, crs_wkt and crs (crs only when no crs_wkt is given) in mode *)
(* 'w' only, and its guard queries the session for the driver once. After  *)
(* that an accessor queries the session only when the collection has no    *)
(* value for it and the session is open (driver and schema in modes 'a'    *)
(* and 'r' only); it then caches what the session reports, so each         *)
(* accessor queries at most once, through meta or directly, and no other   *)
(* operation queries the session or changes a cached value.                *)
C18_AccessorsQueryOnce == []C18_QueriesState /\ [][C18_AccessStep]_vars

\* every accessor was used, and the driver accessor has just been used again
C18_Witness ==
    /\ last.op = "driver" /\ ~last.closed /\ last.mode = "r"
    /\ gdal.queries = [k \in Accessors |-> IF k = "driver" THEN 2 ELSE 1]
    /\ \A k \in Accessors : Cached(self, k)

\* the first four bytes of the buffer are PK\x03\x04
IsZip(b) ==
    /\ Len(b.data) >= 4
    /\ b.data[1] = 80 /\ b.data[2] = 75 /\ b.data[3] = 3 /\ b.data[4] = 4

(* C19: BytesCollection maps a buffer that starts with PK\x03\x04 with     *)
(* extension '.zip' and opens it with vsi 'zip', whatever the driver; a    *)
(* buffer that does not, with driver 'GeoJSON', with extension '.json' and *)
(* no vsi; any other buffer with no extension and no vsi; an input that is *)
(* not bytes raises ValueError before anything is mapped.                  *)
C19_ExtensionAndVsi ==
    (last.op = "__init__" /\ last.cls = "BytesCollection") =>
        LET b == last.buf
            k == last.args
            vsi == super_init_args(self, b, k).vsi
        IN  IF b.tag # "bytes"
            THEN /\ last.exc = "ValueError"
                 /\ gdal.log = <<>> /\ gdal.vsimem = {}
                 /\ self.virtual_file = Unset
            ELSE /\ gdal.log[1] = "vsi.map"
                 /\ Maps = 1
                 /\ gdal.vsimem = {self.virtual_file}
                 /\ IsZip(b) =>
                        self.virtual_file = "/vsimem/buf.zip" /\ vsi = "zip"
                 /\ (~IsZip(b) /\ k.driver = "GeoJSON") =>
                        self.virtual_file = "/vsimem/buf.json" /\ ~Truthy(vsi)
                 /\ (~IsZip(b) /\ k.driver # "GeoJSON") =>
                        self.virtual_file = "/vsimem/buf" /\ ~Truthy(vsi)

\* a zip buffer was opened with driver 'GeoJSON'
C19_Witness ==
    /\ last.op = "__init__" /\ last.cls = "BytesCollection" /\ last.exc = None
    /\ IsZip(last.buf) /\ last.args.driver = "GeoJSON"
    /\ self.virtual_file = "/vsimem/buf.zip"

\* str without the prefix, when it starts with it
RemovePrefix(str, prefix) ==
    IF Len(str) >= Len(prefix) /\ SubSeq(str, 1, Len(prefix)) = prefix
    THEN SubSeq(str, Len(prefix) + 1, Len(str))
    ELSE str

\* validate_record_geometry returned, and returned True
Validated == last.op = "validate_record_geometry" /\ last.exc = None
Accepted == last.ret = Bool(TRUE)

\* the names compared, the schema's without a leading '3D '
RecordType == Chars(last.record)
SchemaType == RemovePrefix(Chars(self._schema.geometry), c3D)

(* C20, as claimed: with the driver 'ESRI Shapefile' a record is accepted  *)
(* iff its type and the schema's type (without a leading '3D ') are equal  *)
(* once a leading 'Multi' is removed from each; with any other driver iff  *)
(* its type equals the schema's type without a leading '3D '.              *)
C20_MultiInterchangeable ==
    Validated =>
        IF self._driver = "ESRI Shapefile"
        THEN Accepted <=> RemovePrefix(RecordType, cMulti)
                            = RemovePrefix(SchemaType, cMulti)
        ELSE Accepted <=> RecordType = SchemaType

(* C20, amended: with the driver 'ESRI Shapefile' and a record whose type  *)
(* does not contain 'Point', the record is accepted iff its type and the   *)
(* schema's type (without a leading '3D ') are equal once a leading        *)
(* 'Multi' is removed from each; a record whose type contains 'Point', and *)
(* any record with another driver, is accepted iff its type equals the     *)
(* schema's type without a leading '3D '.                                  *)
C20_MultiExceptPoints ==
    Validated =>
        IF self._driver = "ESRI Shapefile" /\ ~Contains(RecordType, cPoint)
        THEN Accepted <=> RemovePrefix(RecordType, cMulti)
                            = RemovePrefix(SchemaType, cMulti)
        ELSE Accepted <=> RecordType = SchemaType

\* a MultiPolygon record was accepted by a shapefile of 3D polygons
C20_Witness ==
    /\ Validated /\ Accepted
    /\ self._driver = "ESRI Shapefile"
    /\ last.record = "MultiPolygon" /\ self._schema.geometry = "3D Polygon"

\* what next(collection) returns on an open collection of mode 'r'
C21_NextState ==
    (last.op = "__next__" /\ ~last.closed /\ last.mode = "r" /\ last.exc = None) =>
        last.ret.what = "feature"

\* next(collection) goes forward from where the current iterator stands, and
\* starts at the first feature only when there is no iterator
C21_NextStep ==
    (pc = "open" /\ ~closed(self) /\ self.mode = "r"
        /\ last'.op = "__next__" /\ last'.exc = None) =>
        /\ last'.ret.n = self.iterator.pos
        /\ self'.iterator.pos = self.iterator.pos + 1
        /\ self.iterator # NoIterator => self'.iterator.kind = self.iterator.kind

(* C21: next(collection) on an open collection of mode 'r' returns the     *)
(* next feature of a records iterator: after any calls of filter(),        *)
(* items() and keys(), successive next(collection) calls return features,  *)
(* never keys or (key, feature) pairs, in forward order, and start again   *)
(* at the first feature only after a new iterator was requested.           *)
C21_NextReturnsFeatures == []C21_NextState /\ [][C21_NextStep]_vars

====
